---- MODULE Spec2Model ----
(***************************************************************************)
(* TWAP execution of yatharth-binance-bot.                                 *)
(*                                                                         *)
(* Two copies of the TWAP loop exist in the repository:                    *)
(*   "bot"    BinanceFuturesBot.place_twap_order   (src/main.py)           *)
(*   "module" place_twap_order                     (src/src/advanced/      *)
(*            twap.py), the copy the modular console and the GUI import.   *)
(* Both are modelled; `impl` says which copy a run executes.  The exchange *)
(* client (the order submission port) answers each market order by either  *)
(* a confirmation or an exception, nondeterministically.                   *)
(*                                                                         *)
(* Python floats are modelled as exact rationals <<num, den>> in lowest    *)
(* terms with den > 0, Python strings as sequences of one-character        *)
(* strings.                                                                *)
(*                                                                         *)
(* Spec, FairSpec and PairSpec describe one call of place_twap_order.      *)
(* AppSpec and AppFairSpec describe the three programs around it: the two  *)
(* console menus (src/main.py, src/src/console.py) and the GUI             *)
(* (src/src/main.py), from the construction of BinanceFuturesBot on.       *)
(***************************************************************************)
EXTENDS Integers, Sequences, FiniteSets, TLC

\* ---- bounds of the model -------------------------------------------------
MaxQuantity == 2
MaxDuration == 10
MaxSlices == 5
MaxGuiEvents == 2
MaxCalls == 1

\* ---- program constants ---------------------------------------------------
SecondsPerMinute == 60
\* BinanceAPIException.code of a timestamp error and of invalid credentials
TimestampErrorCode == -1021
InvalidKeyCode == -2015

\* ---- rationals -----------------------------------------------------------
Abs(x) == IF x < 0 THEN -x ELSE x

RECURSIVE Gcd(_, _)
Gcd(a, b) == IF b = 0 THEN a ELSE Gcd(b, a % b)

\* a / b for b # 0, as a rational in lowest terms with a positive denominator
Div(a, b) ==
    LET g == Gcd(Abs(a), Abs(b))
        s == IF b < 0 THEN -1 ELSE 1
    IN  <<(s * a) \div g, (s * b) \div g>>

RatLt0(r) == r[1] < 0

\* ---- strings -------------------------------------------------------------
\* a Python str is a sequence of one-character strings
LowerLetters == <<"a", "b", "c", "d", "e", "f", "g", "h", "i", "j", "k", "l", "m",
                  "n", "o", "p", "q", "r", "s", "t", "u", "v", "w", "x", "y", "z">>
UpperLetters == <<"A", "B", "C", "D", "E", "F", "G", "H", "I", "J", "K", "L", "M",
                  "N", "O", "P", "Q", "R", "S", "T", "U", "V", "W", "X", "Y", "Z">>

Translate(c, from, to) ==
    IF \E k \in 1 .. Len(from) : from[k] = c
    THEN to[CHOOSE k \in 1 .. Len(from) : from[k] = c]
    ELSE c

\* str.upper() and str.lower()
Upper_identity(str) == str

Upper(str) == [k \in 1 .. Len(str) |-> Translate(str[k], LowerLetters, UpperLetters)]

Lower(str) == [k \in 1 .. Len(str) |-> Translate(str[k], UpperLetters, LowerLetters)]

\* ---- inputs --------------------------------------------------------------
Impls == {"bot", "module"}
Symbols == {<<"b", "t", "c">>, <<"B", "T", "C">>, <<"B", "t", "c">>}
Sides == {<<"B", "U", "Y">>, <<"s", "e", "l", "l">>}
Quantities == -1 .. MaxQuantity
\* negative, zero, the shortest and the longest positive duration
Durations == {-1, 0, 1, MaxDuration}
SliceCounts == -1 .. MaxSlices
\* exceptions the exchange client can raise from futures_create_order
PortErrors == {"BinanceAPIException", "Exception"}

\* the three programs that call a TWAP copy, and the copy each one calls
Callers == {"main", "console", "gui"}
ImplOf(ca) == IF ca = "main" THEN "bot" ELSE "module"

NoMessage == [kind |-> "none"]
NoRun == [taken |-> FALSE, impl |-> "", port |-> <<>>, waits |-> <<>>, result |-> <<>>]

NoRequest == [symbol |-> <<>>, side |-> <<>>, total_quantity |-> 0,
              duration_minutes |-> 0, num_slices |-> 0]

\* what futures_account can answer: the account, a BinanceAPIException with a
\* code, or another exception (no connection, ...)
ApiErrorCodes == {TimestampErrorCode, InvalidKeyCode, -1000}
NoOutcome == [kind |-> "none", code |-> 0]
AccountOutcomes ==
    {[kind |-> "ok", code |-> 0], [kind |-> "Exception", code |-> 0]}
        \cup {[kind |-> "BinanceAPIException", code |-> c] : c \in ApiErrorCodes}

NoConn == [pc |-> "none", api_key |-> "", api_secret |-> "", account_calls |-> 0,
           syncs |-> 0, first |-> NoOutcome, error |-> ""]

\* credentials found in the environment or typed by the user
Credentials == {[key |-> "", secret |-> ""], [key |-> "K1", secret |-> "S1"],
                [key |-> "K2", secret |-> "S2"]}

\* answers to a `(y/n)` prompt
Answers == {<<"y">>, <<"Y">>, <<"n">>, <<"y", "e", "s">>, <<"y", " ">>}

\* how a call of the exchange client made by a handler can end
HandlerOutcomes == {"ok", "BinanceAPIException", "Exception"}

\* menu choices 3, 4, 5, 8, 9 and the GUI buttons of the same operations
MenuOrderOps == {"market", "limit", "stop_limit", "cancel", "cancel_all"}
GuiOrderOps == {"market", "limit", "stop_limit"}

\* positionAmt of the position a Close button belongs to
PositionAmounts == {-1, 0, 2}

NoEvent == [op |-> "none", path |-> "", amount |-> 0, confirm |-> FALSE]
Event(op, path) == [op |-> op, path |-> path, amount |-> 0, confirm |-> FALSE]

VARIABLES
    impl,             \* which copy of place_twap_order runs
    request,          \* the arguments of the call
    pc,               \* position of the call
    i,                \* loop variable of `for i in range(num_slices)`
    orders,           \* the local list `orders`
    slice_quantity,   \* local, computed once
    interval_seconds, \* local, computed once
    port,             \* history: market orders received by the exchange client
    inflight,         \* number of market orders sent and not yet answered
    waits,            \* history: the completed time.sleep calls (argument, loop
                      \* index they followed, market orders sent before them)
    failed,           \* history: the except branch of the loop was taken
    error,            \* exception that left place_twap_order ("" if none)
    result,           \* the returned list (<<>> until the call returns)
    caller,           \* the program that makes the call: "main" (src/main.py
                      \* console), "console" (src/src/console.py), "gui"
    shown,            \* what the caller has shown to the user about the call
    handled,          \* number of other GUI events the Tk main loop has dispatched
    first,            \* observations of an earlier run (comparison of the copies)
    at,               \* position of the calling program: "setup", "construct"
                      \* (inside BinanceFuturesBot.__init__), "menu" (console, at
                      \* the menu prompt), "idle" (GUI, in the Tk main loop),
                      \* "twap" (inside the TWAP handler), "exited"
    bot,              \* `bot` of main() / `self.bot` of the GUI: "none" or "ready"
    conn,             \* the construction of BinanceFuturesBot in progress or last made
    api_key,          \* GUI: self.api_key ("" stands for None and for '')
    api_secret,       \* GUI: self.api_secret
    entry,            \* GUI: the text of the two login entry fields
    answer,           \* console: the local `confirm`, the last answer to a prompt
    last,             \* the handler that ran last and the path it took
    calls             \* history: order and cancel calls the handlers made on the
                      \* exchange client (the market orders of a TWAP run are in port)

\* the state of the programs around the TWAP call
app == <<at, bot, conn, api_key, api_secret, entry, answer, last, calls>>

vars == <<impl, request, pc, i, orders, slice_quantity, interval_seconds,
          port, inflight, waits, failed, error, result,
          caller, shown, handled, first, app>>

\* the state of the caller, which place_twap_order never touches
ui == <<caller, shown, handled, first, app>>

\* ---- the two results the spec derives from a run -------------------------
attemptedCount == Len(port)
requestedCount == request.num_slices
aborted == failed

ValidRequest ==
    /\ request.total_quantity > 0
    /\ request.num_slices >= 1
    /\ request.duration_minutes >= 0

Init ==
    /\ impl = "bot"
    /\ request = NoRequest
    /\ pc = "idle"
    /\ i = 0
    /\ orders = <<>>
    /\ slice_quantity = <<0, 1>>
    /\ interval_seconds = <<0, 1>>
    /\ port = <<>>
    /\ inflight = 0
    /\ waits = <<>>
    /\ failed = FALSE
    /\ error = ""
    /\ result = <<>>
    /\ caller \in Callers
    /\ shown = NoMessage
    /\ handled = 0
    /\ first = NoRun
    /\ at = "setup"
    /\ bot = "none"
    /\ conn = NoConn
    /\ api_key = ""
    /\ api_secret = ""
    /\ entry = [key |-> "", secret |-> ""]
    /\ answer = <<>>
    /\ last = NoEvent
    /\ calls = <<>>

\* (variant: a non-positive duration is rejected up front)
Call_rejectZeroDuration(im, sy, sd, tq, dm, ns) ==
    /\ pc = "idle"
    /\ im = ImplOf(caller)
    /\ impl' = im
    /\ request' = [symbol |-> sy, side |-> sd, total_quantity |-> tq,
                   duration_minutes |-> dm, num_slices |-> ns]
    /\ IF ns = 0 \/ dm <= 0
       THEN /\ pc' = "raised"
            /\ error' = IF ns = 0 THEN "ZeroDivisionError" ELSE "ValueError"
            /\ UNCHANGED <<slice_quantity, interval_seconds>>
       ELSE /\ pc' = "for"
            /\ slice_quantity' = Div(tq, ns)
            /\ interval_seconds' = Div(dm * SecondsPerMinute, ns)
            /\ error' = ""
    /\ i' = 0
    /\ orders' = <<>>
    /\ UNCHANGED <<port, inflight, waits, failed, result>>
    /\ UNCHANGED ui

\* Entry of place_twap_order: the two divisions before the loop.  A zero
\* num_slices raises ZeroDivisionError out of the function.
Call(im, sy, sd, tq, dm, ns) ==
    /\ pc = "idle"
    /\ im = ImplOf(caller)
    /\ impl' = im
    /\ request' = [symbol |-> sy, side |-> sd, total_quantity |-> tq,
                   duration_minutes |-> dm, num_slices |-> ns]
    /\ IF ns = 0
       THEN /\ pc' = "raised"
            /\ error' = "ZeroDivisionError"
            /\ UNCHANGED <<slice_quantity, interval_seconds>>
       ELSE /\ pc' = "for"
            /\ slice_quantity' = Div(tq, ns)
            /\ interval_seconds' = Div(dm * SecondsPerMinute, ns)
            /\ error' = ""
    /\ i' = 0
    /\ orders' = <<>>
    /\ UNCHANGED <<port, inflight, waits, failed, result>>
    /\ UNCHANGED ui

\* ---- the loop ------------------------------------------------------------
\* quantity passed to place_market_order for the current slice
OrderQuantity_drift == Div(request.total_quantity * (i + 1), request.num_slices)

OrderQuantity_total == Div(request.total_quantity, 1)

OrderQuantity == slice_quantity

\* argument of time.sleep between two slices
SleepSeconds_perGap ==
    Div(request.duration_minutes * SecondsPerMinute, request.num_slices - 1)

SleepSeconds == interval_seconds

\* place_market_order: the parameters passed to futures_create_order
MarketOrderParams(sy, sd, q) ==
    [symbol |-> Upper(sy), side |-> Upper(sd), type |-> "MARKET", quantity |-> q]

\* the market order of slice index k as the exchange client receives it
SliceOrder(k) ==
    LET params == MarketOrderParams(request.symbol, request.side, OrderQuantity)
    IN  [index |-> k, symbol |-> params.symbol, side |-> params.side,
         quantity |-> params.quantity, outcome |-> "pending"]

\* bot copy: self.place_market_order(symbol, side, slice_quantity) is called;
\* the market order reaches the exchange client and the call blocks.
SubmitSlice_reversed ==
    /\ pc = "for"
    /\ impl = "bot"
    /\ i < request.num_slices
    /\ port' = Append(port, SliceOrder(request.num_slices - 1 - i))
    /\ inflight' = inflight + 1
    /\ pc' = "inflight"
    /\ UNCHANGED ui
    /\ UNCHANGED <<impl, request, i, orders, slice_quantity, interval_seconds,
                   waits, failed, error, result>>

SubmitSlice_offByOne ==
    /\ pc = "for"
    /\ impl = "bot"
    /\ i <= request.num_slices
    /\ port' = Append(port, SliceOrder(i))
    /\ inflight' = inflight + 1
    /\ pc' = "inflight"
    /\ UNCHANGED ui
    /\ UNCHANGED <<impl, request, i, orders, slice_quantity, interval_seconds,
                   waits, failed, error, result>>

SubmitSlice ==
    /\ pc = "for"
    /\ impl = "bot"
    /\ i < request.num_slices
    /\ port' = Append(port, SliceOrder(i))
    /\ inflight' = inflight + 1
    /\ pc' = "inflight"
    /\ UNCHANGED ui
    /\ UNCHANGED <<impl, request, i, orders, slice_quantity, interval_seconds,
                   waits, failed, error, result>>

\* module copy: the two order lines are commented out, the try body only logs.
SkipSubmit ==
    /\ pc = "for"
    /\ impl = "module"
    /\ i < request.num_slices
    /\ pc' = "placed"
    /\ UNCHANGED ui
    /\ UNCHANGED <<impl, request, i, orders, slice_quantity, interval_seconds,
                   port, inflight, waits, failed, error, result>>

\* confirmation the exchange returns for the order it received last
Confirmation == [orderId |-> Len(port), origQty |-> port[Len(port)].quantity]

\* futures_create_order returns; place_market_order returns the order and the
\* loop appends it.
PortAccept_noAppend ==
    /\ pc = "inflight"
    /\ port' = [port EXCEPT ![Len(port)].outcome = "ok"]
    /\ inflight' = inflight - 1
    /\ pc' = "placed"
    /\ UNCHANGED ui
    /\ UNCHANGED <<impl, request, i, orders, slice_quantity, interval_seconds,
                   waits, failed, error, result>>

PortAccept_prepend ==
    /\ pc = "inflight"
    /\ port' = [port EXCEPT ![Len(port)].outcome = "ok"]
    /\ inflight' = inflight - 1
    /\ orders' = <<Confirmation>> \o orders
    /\ pc' = "placed"
    /\ UNCHANGED ui
    /\ UNCHANGED <<impl, request, i, slice_quantity, interval_seconds,
                   waits, failed, error, result>>

PortAccept ==
    /\ pc = "inflight"
    /\ port' = [port EXCEPT ![Len(port)].outcome = "ok"]
    /\ inflight' = inflight - 1
    /\ orders' = Append(orders, Confirmation)
    /\ pc' = "placed"
    /\ UNCHANGED ui
    /\ UNCHANGED <<impl, request, i, slice_quantity, interval_seconds,
                   waits, failed, error, result>>

\* futures_create_order raises kind; place_market_order re-raises it (it only
\* logs a BinanceAPIException); `except Exception` of the loop logs and breaks.
PortReject_continue(kind) ==
    /\ pc = "inflight"
    /\ port' = [port EXCEPT ![Len(port)].outcome = kind]
    /\ inflight' = inflight - 1
    /\ failed' = TRUE
    /\ i' = i + 1
    /\ pc' = "for"
    /\ UNCHANGED ui
    /\ UNCHANGED <<impl, request, orders, slice_quantity, interval_seconds,
                   waits, error, result>>

PortReject_narrowExcept(kind) ==
    /\ pc = "inflight"
    /\ port' = [port EXCEPT ![Len(port)].outcome = kind]
    /\ inflight' = inflight - 1
    /\ IF kind = "BinanceAPIException"
       THEN /\ failed' = TRUE
            /\ pc' = "return"
            /\ UNCHANGED error
       ELSE /\ pc' = "raised"
            /\ error' = kind
            /\ UNCHANGED failed
    /\ UNCHANGED ui
    /\ UNCHANGED <<impl, request, i, orders, slice_quantity, interval_seconds,
                   waits, result>>

PortReject_retry(kind) ==
    /\ pc = "inflight"
    /\ port' = [port EXCEPT ![Len(port)].outcome = kind]
    /\ failed' = TRUE
    /\ pc' = "inflight"
    /\ UNCHANGED ui
    /\ UNCHANGED <<impl, request, i, orders, slice_quantity, interval_seconds,
                   inflight, waits, error, result>>

PortReject_rollback(kind) ==
    /\ pc = "inflight"
    /\ port' = [port EXCEPT ![Len(port)].outcome = kind]
    /\ inflight' = inflight - 1
    /\ failed' = TRUE
    /\ orders' = <<>>
    /\ pc' = "return"
    /\ UNCHANGED ui
    /\ UNCHANGED <<impl, request, i, slice_quantity, interval_seconds,
                   waits, error, result>>

PortReject(kind) ==
    /\ pc = "inflight"
    /\ port' = [port EXCEPT ![Len(port)].outcome = kind]
    /\ inflight' = inflight - 1
    /\ failed' = TRUE
    /\ pc' = "return"
    /\ UNCHANGED ui
    /\ UNCHANGED <<impl, request, i, orders, slice_quantity, interval_seconds,
                   waits, error, result>>

\* `if i < num_slices - 1: time.sleep(interval_seconds)`.  time.sleep raises
\* ValueError for a negative argument; the loop's except clause catches it and
\* breaks.
Sleep_afterLast ==
    /\ pc = "placed"
    /\ i < request.num_slices
    /\ IF RatLt0(SleepSeconds)
       THEN /\ failed' = TRUE
            /\ pc' = "return"
            /\ UNCHANGED <<waits, i>>
       ELSE /\ waits' = Append(waits, [seconds |-> SleepSeconds, after |-> i, sent |-> Len(port)])
            /\ i' = i + 1
            /\ pc' = "for"
            /\ UNCHANGED failed
    /\ UNCHANGED ui
    /\ UNCHANGED <<impl, request, orders, slice_quantity, interval_seconds,
                   port, inflight, error, result>>

\* (variant: a cancel request is honoured between two slices)
Sleep_cancellable ==
    /\ pc = "placed"
    /\ i < request.num_slices - 1
    /\ \/ /\ waits' = Append(waits, [seconds |-> SleepSeconds, after |-> i, sent |-> Len(port)])
          /\ i' = i + 1
          /\ pc' = "for"
       \/ /\ pc' = "return"
          /\ UNCHANGED <<waits, i>>
    /\ UNCHANGED ui
    /\ UNCHANGED <<impl, request, orders, slice_quantity, interval_seconds,
                   port, inflight, failed, error, result>>

Sleep ==
    /\ pc = "placed"
    /\ i < request.num_slices - 1
    /\ IF RatLt0(SleepSeconds)
       THEN /\ failed' = TRUE
            /\ pc' = "return"
            /\ UNCHANGED <<waits, i>>
       ELSE /\ waits' = Append(waits, [seconds |-> SleepSeconds, after |-> i, sent |-> Len(port)])
            /\ i' = i + 1
            /\ pc' = "for"
            /\ UNCHANGED failed
    /\ UNCHANGED ui
    /\ UNCHANGED <<impl, request, orders, slice_quantity, interval_seconds,
                   port, inflight, error, result>>

\* last slice: no sleep, the loop goes on to its next iteration
NoSleep_sleeps ==
    /\ pc = "placed"
    /\ ~(i < request.num_slices - 1)
    /\ waits' = Append(waits, [seconds |-> SleepSeconds, after |-> i, sent |-> Len(port)])
    /\ i' = i + 1
    /\ pc' = "for"
    /\ UNCHANGED ui
    /\ UNCHANGED <<impl, request, orders, slice_quantity, interval_seconds,
                   port, inflight, failed, error, result>>

NoSleep ==
    /\ pc = "placed"
    /\ ~(i < request.num_slices - 1)
    /\ i' = i + 1
    /\ pc' = "for"
    /\ UNCHANGED ui
    /\ UNCHANGED <<impl, request, orders, slice_quantity, interval_seconds,
                   port, inflight, waits, failed, error, result>>

\* range(num_slices) is exhausted, or the loop was left by break:
\* `return orders`
Return ==
    /\ \/ pc = "for" /\ ~(i < request.num_slices)
       \/ pc = "return"
    /\ result' = orders
    /\ pc' = "done"
    /\ UNCHANGED ui
    /\ UNCHANGED <<impl, request, i, orders, slice_quantity, interval_seconds,
                   port, inflight, waits, failed, error>>

\* ---- the callers ---------------------------------------------------------
run == <<impl, request, pc, i, orders, slice_quantity, interval_seconds,
         port, inflight, waits, failed, error, result>>

\* the call returned: the console prints, the GUI shows in a message box,
\* f"TWAP completed! {len(orders)} orders executed"
Report ==
    /\ pc = "done"
    /\ shown.kind = "none"
    /\ shown' = [kind |-> "completed", executed |-> Len(result)]
    /\ UNCHANGED <<run, caller, handled, first, app>>

\* the call raised: `except Exception as e` of the menu loop / of the GUI
\* callback shows the exception text
ReportError ==
    /\ pc = "raised"
    /\ shown.kind = "none"
    /\ shown' = [kind |-> "error", exception |-> error]
    /\ UNCHANGED <<run, caller, handled, first, app>>

\* The GUI callback place_twap_order_gui calls place_twap_order directly, on
\* the thread of app.mainloop(): Tk dispatches no other event (refresh, cancel
\* order, ...) until the callback has returned.
MainLoopIdle == pc = "idle" \/ shown.kind # "none"

GuiEvent ==
    /\ caller = "gui"
    /\ MainLoopIdle
    /\ handled < MaxGuiEvents
    /\ handled' = handled + 1
    /\ UNCHANGED <<run, caller, shown, first, app>>

Next ==
    \/ \E im \in Impls, sy \in Symbols, sd \in Sides,
          tq \in Quantities, dm \in Durations, ns \in SliceCounts :
          Call(im, sy, sd, tq, dm, ns)
    \/ SubmitSlice
    \/ SkipSubmit
    \/ PortAccept
    \/ \E kind \in PortErrors : PortReject(kind)
    \/ Sleep
    \/ NoSleep
    \/ Return
    \/ Report
    \/ ReportError
    \/ GuiEvent

Spec == Init /\ [][Next]_vars

\* Every call of the exchange client returns or raises and every time.sleep
\* elapses: a step that can be taken is eventually taken.
FairSpec == Spec /\ WF_vars(Next)

\* ---- the two copies side by side ------------------------------------------
OtherImpl(im) == IF im = "bot" THEN "module" ELSE "bot"

\* After a run has returned, the other copy is called with the same arguments;
\* what the first run sent, waited and returned is kept in `first`.
CallAgain ==
    /\ pc = "done"
    /\ ~first.taken
    /\ first' = [taken |-> TRUE, impl |-> impl, port |-> port, waits |-> waits,
                 result |-> result]
    /\ impl' = OtherImpl(impl)
    /\ pc' = "for"
    /\ slice_quantity' = Div(request.total_quantity, request.num_slices)
    /\ interval_seconds' = Div(request.duration_minutes * SecondsPerMinute,
                               request.num_slices)
    /\ i' = 0
    /\ orders' = <<>>
    /\ port' = <<>>
    /\ inflight' = 0
    /\ waits' = <<>>
    /\ failed' = FALSE
    /\ error' = ""
    /\ result' = <<>>
    /\ shown' = NoMessage
    /\ UNCHANGED <<request, caller, handled, app>>

PairNext == Next \/ CallAgain

PairSpec == Init /\ [][PairNext]_vars

\* ---- construction of BinanceFuturesBot -----------------------------------
\* what the handlers of the programs leave alone
core == <<run, caller, shown, handled, first>>

\* Client(api_key, api_secret); the class of src/src/console.py (modular console
\* and GUI) then calls _sync_time, the class of src/main.py goes straight to
\* _validate_connection
NewConn(k, s) ==
    [pc |-> IF caller = "main" THEN "account" ELSE "sync",
     api_key |-> k, api_secret |-> s, account_calls |-> 0, syncs |-> 0,
     first |-> NoOutcome, error |-> ""]

\* _sync_time from __init__: get_server_time returns or raises; the exception
\* is logged and swallowed
SyncTime ==
    /\ at = "construct"
    /\ conn.pc = "sync"
    /\ conn' = [conn EXCEPT !.syncs = @ + 1, !.pc = "account"]
    /\ UNCHANGED <<core, at, bot, api_key, api_secret, entry, answer, last, calls>>

\* (variant: every API error is answered by a resync and a retry)
AccountCall_retryOther(outcome) ==
    /\ at = "construct"
    /\ conn.pc = "account"
    /\ conn' = [conn EXCEPT
                  !.account_calls = @ + 1,
                  !.first = outcome,
                  !.pc = IF outcome.kind = "ok" THEN "done"
                         ELSE IF outcome.kind = "BinanceAPIException" THEN "resync"
                         ELSE "raised",
                  !.error = IF outcome.kind = "Exception" THEN "Exception" ELSE ""]
    /\ UNCHANGED <<core, at, bot, api_key, api_secret, entry, answer, last, calls>>

\* _validate_connection: the first futures_account call and its except clause
AccountCall(outcome) ==
    /\ at = "construct"
    /\ conn.pc = "account"
    /\ conn' = [conn EXCEPT
                  !.account_calls = @ + 1,
                  !.first = outcome,
                  !.pc = IF outcome.kind = "ok" THEN "done"
                         ELSE IF /\ caller # "main"
                                 /\ outcome.kind = "BinanceAPIException"
                                 /\ outcome.code = TimestampErrorCode
                              THEN "resync"
                         ELSE "raised",
                  !.error = IF outcome.kind = "ok" THEN ""
                            ELSE IF caller # "main"
                                    /\ outcome.kind = "BinanceAPIException"
                                 THEN IF outcome.code = TimestampErrorCode THEN ""
                                      ELSE IF outcome.code = InvalidKeyCode
                                           THEN "ValueError"
                                      ELSE "BinanceAPIException"
                            ELSE outcome.kind]
    /\ UNCHANGED <<core, at, bot, api_key, api_secret, entry, answer, last, calls>>

\* code -1021: self._sync_time() again
Resync ==
    /\ at = "construct"
    /\ conn.pc = "resync"
    /\ conn' = [conn EXCEPT !.syncs = @ + 1, !.pc = "retry"]
    /\ UNCHANGED <<core, at, bot, api_key, api_secret, entry, answer, last, calls>>

\* the retry of futures_account; `except Exception: raise`
RetryAccount(outcome) ==
    /\ at = "construct"
    /\ conn.pc = "retry"
    /\ conn' = [conn EXCEPT
                  !.account_calls = @ + 1,
                  !.pc = IF outcome.kind = "ok" THEN "done" ELSE "raised",
                  !.error = IF outcome.kind = "ok" THEN "" ELSE outcome.kind]
    /\ UNCHANGED <<core, at, bot, api_key, api_secret, entry, answer, last, calls>>

\* ---- the console programs --------------------------------------------------
\* main() up to the constructor call: the credentials come from the environment
\* or from two prompts; an empty one ends the program
ConsoleSetup(c) ==
    /\ caller # "gui"
    /\ at = "setup"
    /\ IF c.key = "" \/ c.secret = ""
       THEN /\ at' = "exited"
            /\ last' = Event("setup", "credentials_required")
            /\ UNCHANGED conn
       ELSE /\ at' = "construct"
            /\ conn' = NewConn(c.key, c.secret)
            /\ UNCHANGED last
    /\ UNCHANGED <<core, bot, api_key, api_secret, entry, answer, calls>>

\* the constructor returned: the menu loop starts
ConsoleConstructed ==
    /\ caller # "gui"
    /\ at = "construct"
    /\ conn.pc = "done"
    /\ bot' = "ready"
    /\ at' = "menu"
    /\ UNCHANGED <<core, conn, api_key, api_secret, entry, answer, last, calls>>

\* the constructor raised: the outer except clause prints and main() returns
ConsoleConstructFailed ==
    /\ caller # "gui"
    /\ at = "construct"
    /\ conn.pc = "raised"
    /\ at' = "exited"
    /\ last' = Event("setup", conn.error)
    /\ UNCHANGED <<core, bot, conn, api_key, api_secret, entry, answer, calls>>

\* choice '0': break
ChooseExit ==
    /\ at = "menu"
    /\ at' = "exited"
    /\ last' = Event("choice", "0")
    /\ UNCHANGED <<core, bot, conn, api_key, api_secret, entry, answer, calls>>

\* input() of the menu prompt raises EOFError (end of standard input).  The
\* call is inside `while True` but outside the inner try: the outer
\* `except Exception` prints "Failed to initialize bot" and main() returns.
ChooseEOF ==
    /\ at = "menu"
    /\ at' = "exited"
    /\ last' = Event("choice", "EOFError")
    /\ UNCHANGED <<core, bot, conn, api_key, api_secret, entry, answer, calls>>

\* any choice that is not one of '0' .. '10': a message, the menu again
InvalidChoice ==
    /\ at = "menu"
    /\ last' = Event("choice", "invalid")
    /\ UNCHANGED <<core, at, bot, conn, api_key, api_secret, entry, answer, calls>>

\* (variant: the inner try has no `except Exception` clause)
MenuQuery_propagates(outcome) ==
    /\ at = "menu"
    /\ last' = Event("view", outcome)
    /\ at' = IF outcome = "Exception" THEN "exited" ELSE "menu"
    /\ UNCHANGED <<core, bot, conn, api_key, api_secret, entry, answer, calls>>

\* choices 1, 2, 7, 10: a read call on the exchange client and a print, or one
\* of the three except clauses of the inner try
MenuQuery(outcome) ==
    /\ at = "menu"
    /\ last' = Event("view", outcome)
    /\ at' = "menu"
    /\ UNCHANGED <<core, bot, conn, api_key, api_secret, entry, answer, calls>>

\* how reading the inputs of a menu action can end
InputOutcomes == {"ok", "ValueError", "EOFError"}

\* `confirm.lower() == 'y'`
Confirmed_startswith(ans) == Len(ans) > 0 /\ Lower(ans)[1] = "y"

Confirmed(ans) == Lower(ans) = <<"y">>

\* the call a handler makes on the exchange client
OrderCall(op, sd, q) ==
    IF op = "market"
    THEN [op |-> op, side |-> MarketOrderParams(<<>>, sd, q).side, quantity |-> q]
    ELSE [op |-> op, side |-> <<>>, quantity |-> 0]

\* choices 3, 4, 5, 8, 9: the inputs are read (float() or int() raises
\* ValueError on a malformed one, input() raises EOFError at the end of the
\* input), the confirmation is asked, and only the answer 'y' or 'Y' lets the
\* call through; what the call raises is printed by the except clauses of the
\* inner try.  Choice 9 converts no input.
MenuOrder(op, input, ans, outcome) ==
    /\ at = "menu"
    /\ Len(calls) < MaxCalls
    /\ op = "cancel_all" => input # "ValueError"
    /\ IF input # "ok"
       THEN /\ last' = Event(op, input)
            /\ UNCHANGED <<answer, calls>>
       ELSE /\ answer' = ans
            /\ IF Confirmed(ans)
               THEN /\ calls' = Append(calls, OrderCall(op, <<"B", "U", "Y">>, 1))
                    /\ last' = Event(op, outcome)
               ELSE /\ last' = Event(op, "declined")
                    /\ UNCHANGED calls
    /\ UNCHANGED <<core, at, bot, conn, api_key, api_secret, entry>>

\* choice 6 up to the call of place_twap_order
MenuTwap(input, ans) ==
    /\ at = "menu"
    /\ pc = "idle"
    /\ IF input # "ok"
       THEN /\ last' = Event("twap", input)
            /\ UNCHANGED <<answer, at>>
       ELSE /\ answer' = ans
            /\ IF Confirmed(ans)
               THEN /\ at' = "twap"
                    /\ last' = Event("twap", "confirmed")
               ELSE /\ last' = Event("twap", "declined")
                    /\ UNCHANGED at
    /\ UNCHANGED <<core, bot, conn, api_key, api_secret, entry, calls>>

\* ---- the TWAP handler of the three programs --------------------------------
\* arguments the handlers pass to place_twap_order
TwapSliceCounts == {0, 1, 2}

\* the handler calls the copy of place_twap_order its program uses
AppCall ==
    /\ at = "twap"
    /\ \E ns \in TwapSliceCounts :
          Call(ImplOf(caller), <<"b", "t", "c">>, <<"B", "U", "Y">>, 1, 0, ns)

\* the message is printed (console) or its box is closed (GUI): the handler
\* returns, the locals of the call are gone, and the program is back at the
\* menu prompt or in the Tk main loop
BackToMenu ==
    /\ at = "twap"
    /\ shown.kind # "none"
    /\ at' = IF caller = "gui" THEN "idle" ELSE "menu"
    /\ last' = Event("twap", shown.kind)
    /\ shown' = NoMessage
    /\ impl' = "bot"
    /\ request' = NoRequest
    /\ pc' = "idle"
    /\ i' = 0
    /\ orders' = <<>>
    /\ slice_quantity' = <<0, 1>>
    /\ interval_seconds' = <<0, 1>>
    /\ port' = <<>>
    /\ inflight' = 0
    /\ waits' = <<>>
    /\ failed' = FALSE
    /\ error' = ""
    /\ result' = <<>>
    /\ UNCHANGED <<caller, handled, first, bot, conn, api_key, api_secret, entry,
                   answer, calls>>

\* ---- the GUI ----------------------------------------------------------------
\* what login() does before the constructor call: a key or secret already
\* stored in self is kept, only a missing one is read from its entry field
LoginKey == IF api_key = "" THEN entry.key ELSE api_key
LoginSecret == IF api_secret = "" THEN entry.secret ELSE api_secret

\* BinanceTradingApp.__init__ ends with check_api_keys: credentials found in the
\* environment are put into the entry fields and login() is called
GuiSetup(c) ==
    /\ caller = "gui"
    /\ at = "setup"
    /\ IF c.key # "" /\ c.secret # ""
       THEN /\ entry' = c
            /\ api_key' = c.key
            /\ api_secret' = c.secret
            /\ conn' = NewConn(c.key, c.secret)
            /\ at' = "construct"
       ELSE /\ at' = "idle"
            /\ UNCHANGED <<entry, api_key, api_secret, conn>>
    /\ UNCHANGED <<core, bot, answer, last, calls>>

\* the user edits the two entry fields of the login frame
TypeCredentials(c) ==
    /\ caller = "gui"
    /\ at = "idle"
    /\ bot = "none"
    /\ c # entry
    /\ entry' = c
    /\ UNCHANGED <<core, at, bot, conn, api_key, api_secret, answer, last, calls>>

\* the Login button: login() up to the constructor call
Login ==
    /\ caller = "gui"
    /\ at = "idle"
    /\ bot = "none"
    /\ api_key' = LoginKey
    /\ api_secret' = LoginSecret
    /\ conn' = NewConn(LoginKey, LoginSecret)
    /\ at' = "construct"
    /\ UNCHANGED <<core, bot, entry, answer, last, calls>>

\* the constructor returned: self.bot is set and the main UI is built
LoginDone ==
    /\ caller = "gui"
    /\ at = "construct"
    /\ conn.pc = "done"
    /\ bot' = "ready"
    /\ at' = "idle"
    /\ last' = Event("login", "ok")
    /\ UNCHANGED <<core, conn, api_key, api_secret, entry, answer, calls>>

\* the constructor raised: the except clause shows the error and sets
\* self.bot = None; self.api_key and self.api_secret keep their values
LoginFailed ==
    /\ caller = "gui"
    /\ at = "construct"
    /\ conn.pc = "raised"
    /\ bot' = "none"
    /\ at' = "idle"
    /\ last' = Event("login", "failed")
    /\ UNCHANGED <<core, conn, api_key, api_secret, entry, answer, calls>>

\* (variant: the handler does not test self.bot)
GuiOrder_unguarded(op, fields_ok, outcome) ==
    /\ caller = "gui"
    /\ at = "idle"
    /\ Len(calls) < MaxCalls
    /\ IF ~fields_ok
       THEN /\ last' = Event(op, "missing_fields")
            /\ UNCHANGED calls
       ELSE /\ calls' = Append(calls, OrderCall(op, <<"B", "U", "Y">>, 1))
            /\ last' = Event(op, outcome)
    /\ UNCHANGED <<core, at, bot, conn, api_key, api_secret, entry, answer>>

\* place_market_order, place_limit_order, place_stop_limit_order of the GUI;
\* ~fields_ok: a field is empty, or float() of one raises inside the try
GuiOrder(op, fields_ok, outcome) ==
    /\ caller = "gui"
    /\ at = "idle"
    /\ Len(calls) < MaxCalls
    /\ IF bot = "none"
       THEN /\ last' = Event(op, "no_bot")
            /\ UNCHANGED calls
       ELSE IF ~fields_ok
       THEN /\ last' = Event(op, "missing_fields")
            /\ UNCHANGED calls
       ELSE /\ calls' = Append(calls, OrderCall(op, <<"B", "U", "Y">>, 1))
            /\ last' = Event(op, outcome)
    /\ UNCHANGED <<core, at, bot, conn, api_key, api_secret, entry, answer>>

\* cancel_order of the GUI (the Cancel button of an open order)
GuiCancelOrder(outcome) ==
    /\ caller = "gui"
    /\ at = "idle"
    /\ Len(calls) < MaxCalls
    /\ IF bot = "none"
       THEN /\ last' = Event("cancel", "no_bot")
            /\ UNCHANGED calls
       ELSE /\ calls' = Append(calls, OrderCall("cancel", <<>>, 0))
            /\ last' = Event("cancel", outcome)
    /\ UNCHANGED <<core, at, bot, conn, api_key, api_secret, entry, answer>>

\* close_position: what the handler reports about itself
CloseEvent(path, amt, confirm) ==
    [op |-> "close_position", path |-> path, amount |-> amt, confirm |-> confirm]

\* (variant: the order is placed on the side of the position)
ClosePosition_sameSide(amt, confirm, outcome) ==
    /\ caller = "gui"
    /\ at = "idle"
    /\ Len(calls) < MaxCalls
    /\ IF bot = "none"
       THEN /\ last' = CloseEvent("no_bot", amt, FALSE)
            /\ UNCHANGED calls
       ELSE IF amt = 0
       THEN /\ last' = CloseEvent("already_closed", amt, FALSE)
            /\ UNCHANGED calls
       ELSE IF ~confirm
       THEN /\ last' = CloseEvent("declined", amt, confirm)
            /\ UNCHANGED calls
       ELSE /\ calls' = Append(calls,
                   OrderCall("market",
                             IF amt > 0 THEN <<"B", "U", "Y">> ELSE <<"S", "E", "L", "L">>,
                             Abs(amt)))
            /\ last' = CloseEvent(outcome, amt, confirm)
    /\ UNCHANGED <<core, at, bot, conn, api_key, api_secret, entry, answer>>

\* close_position(symbol, position_amt): the Close button of a position.
\* amount = float(position_amt); side and quantity are computed from it; the
\* user is asked (askyesno); one market order is placed.
ClosePosition(amt, confirm, outcome) ==
    /\ caller = "gui"
    /\ at = "idle"
    /\ Len(calls) < MaxCalls
    /\ IF bot = "none"
       THEN /\ last' = CloseEvent("no_bot", amt, FALSE)
            /\ UNCHANGED calls
       ELSE IF amt = 0
       THEN /\ last' = CloseEvent("already_closed", amt, FALSE)
            /\ UNCHANGED calls
       ELSE IF ~confirm
       THEN /\ last' = CloseEvent("declined", amt, confirm)
            /\ UNCHANGED calls
       ELSE /\ calls' = Append(calls,
                   OrderCall("market",
                             IF amt > 0 THEN <<"S", "E", "L", "L">> ELSE <<"B", "U", "Y">>,
                             Abs(amt)))
            /\ last' = CloseEvent(outcome, amt, confirm)
    /\ UNCHANGED <<core, at, bot, conn, api_key, api_secret, entry, answer>>

\* place_twap_order_gui up to the call of place_twap_order; ~fields_ok: a
\* field is empty, or float() / int() of one raises inside the try
GuiTwap(fields_ok) ==
    /\ caller = "gui"
    /\ at = "idle"
    /\ pc = "idle"
    /\ IF bot = "none"
       THEN /\ last' = Event("twap", "no_bot")
            /\ UNCHANGED at
       ELSE IF ~fields_ok
       THEN /\ last' = Event("twap", "missing_fields")
            /\ UNCHANGED at
       ELSE /\ at' = "twap"
            /\ last' = Event("twap", "called")
    /\ UNCHANGED <<core, bot, conn, api_key, api_secret, entry, answer, calls>>

\* ---- the three programs as a whole -------------------------------------------
AppNext ==
    \/ \E c \in Credentials : ConsoleSetup(c)
    \/ SyncTime
    \/ \E outcome \in AccountOutcomes : AccountCall(outcome)
    \/ Resync
    \/ \E outcome \in AccountOutcomes : RetryAccount(outcome)
    \/ ConsoleConstructed
    \/ ConsoleConstructFailed
    \/ ChooseExit
    \/ ChooseEOF
    \/ InvalidChoice
    \/ \E outcome \in HandlerOutcomes \cup {"ValueError"} : MenuQuery(outcome)
    \/ \E op \in MenuOrderOps, input \in InputOutcomes, ans \in Answers,
          outcome \in HandlerOutcomes : MenuOrder(op, input, ans, outcome)
    \/ \E input \in InputOutcomes, ans \in Answers : MenuTwap(input, ans)
    \/ AppCall
    \/ SubmitSlice
    \/ SkipSubmit
    \/ PortAccept
    \/ \E kind \in PortErrors : PortReject(kind)
    \/ Sleep
    \/ NoSleep
    \/ Return
    \/ Report
    \/ ReportError
    \/ BackToMenu
    \/ \E c \in Credentials : GuiSetup(c)
    \/ \E c \in Credentials : TypeCredentials(c)
    \/ Login
    \/ LoginDone
    \/ LoginFailed
    \/ \E op \in GuiOrderOps, fields_ok \in BOOLEAN, outcome \in HandlerOutcomes :
          GuiOrder(op, fields_ok, outcome)
    \/ \E outcome \in HandlerOutcomes : GuiCancelOrder(outcome)
    \/ \E amt \in PositionAmounts, confirm \in BOOLEAN, outcome \in HandlerOutcomes :
          ClosePosition(amt, confirm, outcome)
    \/ \E fields_ok \in BOOLEAN : GuiTwap(fields_ok)

AppSpec == Init /\ [][AppNext]_vars

\* Every call of the exchange client returns or raises: a program that can take
\* a step eventually takes one.
AppFairSpec == AppSpec /\ WF_vars(AppNext)

\* ---- properties ----------------------------------------------------------
Rejected(j) == port[j].outcome \in PortErrors
Accepted(j) == port[j].outcome = "ok"
AllAccepted == \A j \in 1 .. Len(port) : Accepted(j)
Called == pc # "idle"

\* C1: in a finished run of a valid request in which every submission
\* succeeded, exactly num_slices market orders were sent, the run is not
\* aborted and the returned list has num_slices confirmations.
C1_AllSucceedFillsAll ==
    (pc = "done" /\ ValidRequest /\ AllAccepted)
        => /\ attemptedCount = requestedCount
           /\ ~aborted
           /\ Len(result) = requestedCount

\* C2: in a finished run of a valid request, if submissions 1..k-1 succeeded
\* and submission k failed, then exactly k market orders were sent, the run is
\* aborted and the returned list has k-1 confirmations.
C2_KthFailure ==
    \A k \in 1 .. Len(port) :
        (/\ pc = "done"
         /\ ValidRequest
         /\ Rejected(k)
         /\ \A j \in 1 .. k - 1 : Accepted(j))
            => /\ attemptedCount = k
               /\ aborted
               /\ Len(result) = k - 1

C2_Witness ==
    /\ pc = "done"
    /\ ValidRequest
    /\ Len(port) = 3
    /\ requestedCount = 5
    /\ Rejected(3)
    /\ Accepted(1) /\ Accepted(2)
    /\ Len(result) = 2

\* C3: once a submission of the run has failed, no step sends another market
\* order to the port.
C3_NoSubmissionAfterFailure ==
    [][(\E j \in 1 .. Len(port) : Rejected(j)) => Len(port') = Len(port)]_vars

C3_Witness ==
    /\ pc = "done"
    /\ Len(port) >= 1
    /\ Rejected(Len(port))
    /\ Len(port) < requestedCount

\* C4: the port receives the slices in strictly increasing index order
\* (0, 1, 2, ...), at most one market order is unanswered at any moment, and
\* every order before the last one sent has already been answered.
C4_SequentialInOrder ==
    /\ inflight <= 1
    /\ inflight = Cardinality({j \in 1 .. Len(port) : port[j].outcome = "pending"})
    /\ \A j \in 1 .. Len(port) :
          /\ port[j].index = j - 1
          /\ j < Len(port) => port[j].outcome # "pending"

C4_Witness ==
    /\ Len(port) >= 3
    /\ inflight = 1
    /\ port[Len(port)].outcome = "pending"

\* C5: whatever the port raises, a call with a valid request never ends by an
\* exception; when it has returned, the result is the list of confirmations
\* collected up to then.
C5_FailureNotPropagated ==
    (Called /\ ValidRequest)
        => /\ pc # "raised"
           /\ error = ""
           /\ pc = "done" => result = orders

C5_Witness ==
    /\ pc = "done"
    /\ ValidRequest
    /\ Len(port) = 2
    /\ Accepted(1)
    /\ port[2].outcome = "Exception"
    /\ Len(result) = 1

\* C6: a call with num_slices <= 0 never returns normally and never sends a
\* market order.
C6_NonPositiveSlicesFail ==
    (Called /\ request.num_slices <= 0)
        => /\ pc # "done"
           /\ Len(port) = 0

\* C7: a call with a negative duration never returns normally, sends no market
\* order and collects no confirmation.
C7_NegativeDurationFails ==
    (Called /\ request.duration_minutes < 0)
        => /\ pc # "done"
           /\ Len(port) = 0
           /\ orders = <<>>

\* C8: a call with total_quantity <= 0 never returns normally, and no market
\* order with a non-positive quantity is ever sent.
C8_NonPositiveQuantityFails ==
    /\ (Called /\ request.total_quantity <= 0) => (pc # "done" /\ Len(port) = 0)
    /\ \A j \in 1 .. Len(port) : port[j].quantity[1] > 0

\* C9: every market order of a run carries the same quantity q, and
\* q * num_slices = total_quantity, whatever its index and whatever the
\* outcomes of the orders before it.
C9_EqualSliceQuantity ==
    \A j \in 1 .. Len(port) :
        /\ port[j].quantity[1] * request.num_slices
              = request.total_quantity * port[j].quantity[2]
        /\ port[j].quantity = port[1].quantity

C9_Witness ==
    /\ Len(port) = 3
    /\ request.total_quantity = 1
    /\ request.num_slices = 3
    /\ port[3].quantity = <<1, 3>>
    /\ port[3].index = 2

\* C10: in a finished run of a valid request in which every submission
\* succeeded there are exactly num_slices - 1 waits, the w-th of them after
\* slice w and before slice w+1, each of duration_minutes * 60 / num_slices
\* seconds.
C10_WaitsBetweenSlices ==
    (pc = "done" /\ ValidRequest /\ AllAccepted)
        => /\ Len(waits) = request.num_slices - 1
           /\ \A w \in 1 .. Len(waits) :
                 /\ waits[w].after = w - 1
                 /\ impl = "bot" => waits[w].sent = w
                 /\ waits[w].seconds[1] * request.num_slices
                       = request.duration_minutes * SecondsPerMinute
                            * waits[w].seconds[2]

\* 10 minutes in 5 slices: four waits of 120 seconds
C10_Witness ==
    /\ pc = "done"
    /\ impl = "bot"
    /\ request.duration_minutes = MaxDuration
    /\ request.num_slices = 5
    /\ Len(port) = 5
    /\ AllAccepted
    /\ Len(waits) = 4
    /\ \A w \in 1 .. 4 : waits[w].seconds = Div(MaxDuration * SecondsPerMinute, 5)

\* C11: in a run of a valid request, every wait directly follows an accepted market order whose slice
\* index is below num_slices - 1: the last order sent before the wait is
\* accepted and is the order of the slice the wait follows; and a run that has
\* returned sent its last order after its last wait.
C11_WaitsOnlyAfterAcceptedSlice ==
    (Called /\ ValidRequest)
        => /\ \A w \in 1 .. Len(waits) :
                 /\ waits[w].sent >= 1
                 /\ waits[w].sent <= Len(port)
                 /\ Accepted(waits[w].sent)
                 /\ port[waits[w].sent].index = waits[w].after
                 /\ port[waits[w].sent].index < request.num_slices - 1
           /\ (pc = "done" /\ Len(waits) >= 1)
                 => waits[Len(waits)].sent < Len(port)

\* confirmations of the accepted ones among the first n market orders, in the
\* order in which the port received them
RECURSIVE AcceptedConfirmations(_)
AcceptedConfirmations(n) ==
    IF n = 0 THEN <<>>
    ELSE IF Accepted(n)
         THEN Append(AcceptedConfirmations(n - 1),
                     [orderId |-> n, origQty |-> port[n].quantity])
         ELSE AcceptedConfirmations(n - 1)

\* C12: the list collected by a run, and the list it returns, is the sequence
\* of confirmations of the accepted market orders in submission order, each
\* exactly once.
C12_ResultIsAcceptedConfirmations ==
    /\ Called => orders = AcceptedConfirmations(Len(port))
    /\ pc = "done" => result = AcceptedConfirmations(Len(port))

C12_Witness ==
    /\ pc = "done"
    /\ request.num_slices = 3
    /\ Len(port) = 3
    /\ AllAccepted
    /\ Len(result) = 3
    /\ result[1].orderId = 1
    /\ result[3].orderId = 3

\* C13: at every point of a run of a valid request, attemptedCount <=
\* requestedCount and the number of confirmations collected (and returned) is at
\* most attemptedCount.
C13_CountsBounded ==
    (Called /\ ValidRequest)
        => /\ attemptedCount <= requestedCount
           /\ Len(orders) <= attemptedCount
           /\ Len(result) <= attemptedCount

C13_Witness ==
    /\ ValidRequest
    /\ requestedCount >= 2
    /\ attemptedCount = requestedCount
    /\ Len(orders) = attemptedCount - 1
    /\ pc = "inflight"

\* C14: under FairSpec every call with a valid request eventually returns, and
\* once it has returned it stays returned with the same result.
C14_TerminatesOnce ==
    /\ (Called /\ ValidRequest) ~> (pc = "done")
    /\ [][pc = "done" => (pc' = "done" /\ result' = result)]_vars

C14_Witness ==
    /\ pc = "done"
    /\ ValidRequest
    /\ requestedCount = 3
    /\ Len(waits) = 2
    /\ shown.kind = "completed"

\* C15: no slice index is sent twice; from the step at which a market order is
\* rejected on, no step sends anything to the port or changes the collected
\* confirmations; the returning step returns the collected list as it is.
C15_NoRetryNoRollback ==
    [][/\ \A a, b \in 1 .. Len(port') :
             a # b => port'[a].index # port'[b].index
       /\ (\E j \in 1 .. Len(port') : port'[j].outcome \in PortErrors)
             => (Len(port') = Len(port) /\ orders' = orders)
       /\ (pc # "done" /\ pc' = "done") => result' = orders]_vars

C15_Witness ==
    /\ pc = "done"
    /\ Len(port) = 3
    /\ Rejected(3)
    /\ Len(result) = 2
    /\ result[1].orderId = 1
    /\ result[2].orderId = 2

\* C16: a run of BinanceFuturesBot.place_twap_order with num_slices = 1 never
\* waits, whatever the duration; it sends one market order as its first step
\* and no second one.
C16_SingleSlice ==
    (Called /\ impl = "bot" /\ request.num_slices = 1)
        => /\ Len(waits) = 0
           /\ pc # "raised"
           /\ pc # "for" => Len(port) = 1
           /\ pc = "for" => (Len(port) = i /\ i <= 1)
           /\ pc = "done" => (failed <=> Rejected(1))

C16_Witness ==
    /\ pc = "done"
    /\ impl = "bot"
    /\ request.num_slices = 1
    /\ request.duration_minutes = MaxDuration
    /\ Len(port) = 1
    /\ Accepted(1)
    /\ Len(waits) = 0

\* C17: a run of BinanceFuturesBot.place_twap_order with duration 0 and
\* num_slices >= 1 never raises; when it has returned with every market order
\* accepted, all num_slices slices were sent, it is not aborted and every wait
\* lasted 0 seconds.
C17_ZeroDuration ==
    (Called /\ impl = "bot" /\ request.duration_minutes = 0
            /\ request.num_slices >= 1)
        => /\ pc # "raised"
           /\ (pc = "done" /\ AllAccepted)
                 => /\ Len(port) = request.num_slices
                    /\ \A j \in 1 .. Len(port) : port[j].index = j - 1
                    /\ ~failed
                    /\ \A w \in 1 .. Len(waits) : waits[w].seconds = <<0, 1>>

C17_Witness ==
    /\ pc = "done"
    /\ impl = "bot"
    /\ request.duration_minutes = 0
    /\ request.num_slices = 5
    /\ Len(port) = 5
    /\ AllAccepted
    /\ Len(waits) = 4

\* C18: the message shown after a run of a valid request that returned reports the requested
\* slice count, the attempted slice count and whether the run was aborted.
C18_MessageReportsRun ==
    (ValidRequest /\ shown.kind = "completed")
        => /\ {"requested", "attempted", "aborted"} \subseteq DOMAIN shown
           /\ shown.requested = requestedCount
           /\ shown.attempted = attemptedCount
           /\ shown.aborted = aborted

\* C19: while a TWAP run of a valid request started from the GUI is in progress, the GUI can
\* process another event.
InProgress == pc \in {"for", "inflight", "placed", "return"}

C19_GuiInteractiveDuringRun ==
    (caller = "gui" /\ ValidRequest /\ InProgress /\ handled < MaxGuiEvents)
        => ENABLED GuiEvent

\* C20: when both copies have run on the same valid arguments and the port answered
\* the market orders both of them sent in the same way, they sent the same
\* market orders, made the same waits and returned the same list.
MinLen(a, b) == IF Len(a) < Len(b) THEN Len(a) ELSE Len(b)

SamePortBehaviour ==
    \A j \in 1 .. MinLen(port, first.port) :
        port[j].outcome = first.port[j].outcome

C20_CopiesEquivalent ==
    (first.taken /\ ValidRequest /\ pc = "done" /\ SamePortBehaviour)
        => /\ port = first.port
           /\ Len(waits) = Len(first.waits)
           /\ \A w \in 1 .. MinLen(waits, first.waits) :
                 waits[w].seconds = first.waits[w].seconds
           /\ result = first.result

\* ---- rational arithmetic used by the properties ----------------------------
RatAdd(a, b) == Div(a[1] * b[2] + b[1] * a[2], a[2] * b[2])
RatLe(a, b) == a[1] * b[2] <= b[1] * a[2]
RatOfInt(n) == <<n, 1>>

\* sum of the quantities of the first n market orders the port received
RECURSIVE SubmittedQuantity(_)
SubmittedQuantity(n) ==
    IF n = 0 THEN RatOfInt(0) ELSE RatAdd(SubmittedQuantity(n - 1), port[n].quantity)

\* sum of the arguments of the first n completed time.sleep calls
RECURSIVE TotalWait(_)
TotalWait(n) ==
    IF n = 0 THEN RatOfInt(0) ELSE RatAdd(TotalWait(n - 1), waits[n].seconds)

\* C21: a run of a valid request returns only after its loop went through all
\* num_slices slices (the bot copy then has sent all of them) or right after
\* the market order it sent last was rejected; and while a run is in progress
\* no user event is dispatched and the request is not changed.
C21_NoCancellation ==
    /\ [][InProgress => (handled' = handled /\ request' = request
                            /\ caller' = caller)]_vars
    /\ [][(ValidRequest /\ pc # "done" /\ pc' = "done")
             => \/ /\ ~failed'
                   /\ i' = request.num_slices
                   /\ impl = "bot" => (Len(port') = request.num_slices /\ AllAccepted)
                \/ /\ failed'
                   /\ impl = "bot"
                   /\ Len(port') >= 1
                   /\ port'[Len(port')].outcome \in PortErrors
                   /\ \A j \in 1 .. Len(port') - 1 : port'[j].outcome = "ok"]_vars

C21_Witness ==
    /\ pc = "done"
    /\ ValidRequest
    /\ impl = "bot"
    /\ failed
    /\ request.num_slices = 4
    /\ Len(port) = 2
    /\ Rejected(2)
    /\ Len(waits) = 1

\* C22: every market order of a run carries the symbol and the side of the
\* request with every lower-case letter replaced by its upper-case letter.
HasNoLowerCase(str) ==
    \A k \in 1 .. Len(str) : \A l \in 1 .. Len(LowerLetters) : str[k] # LowerLetters[l]

SameIgnoringCase(a, b) ==
    /\ Len(a) = Len(b)
    /\ \A k \in 1 .. Len(a) :
          \/ a[k] = b[k]
          \/ \E l \in 1 .. Len(LowerLetters) :
                {a[k], b[k]} = {LowerLetters[l], UpperLetters[l]}

C22_OrdersCarryUpperCaseSymbol ==
    \A j \in 1 .. Len(port) :
        /\ HasNoLowerCase(port[j].symbol)
        /\ SameIgnoringCase(port[j].symbol, request.symbol)
        /\ HasNoLowerCase(port[j].side)
        /\ SameIgnoringCase(port[j].side, request.side)

C22_Witness ==
    /\ request.symbol = <<"B", "t", "c">>
    /\ request.side = <<"s", "e", "l", "l">>
    /\ Len(port) = 2
    /\ port[2].symbol = <<"B", "T", "C">>
    /\ port[2].side = <<"S", "E", "L", "L">>

FullRunWait ==
    Div(request.duration_minutes * SecondsPerMinute * (request.num_slices - 1),
        request.num_slices)

YesAnswers == {<<"y">>, <<"Y">>}
ConfirmingOps == MenuOrderOps \cup {"twap"}
BUY == <<"B", "U", "Y">>
SELL == <<"S", "E", "L", "L">>

\* C24: in the console programs a step makes an order or cancel call on the
\* exchange client, sends a market order of a TWAP run or enters
\* place_twap_order only if the confirmation of the menu action it belongs to
\* was answered 'y' or 'Y'; a menu action whose confirmation got another answer
\* leaves the program at the menu prompt and makes no call.
C24_ConsoleCallsConfirmed ==
    [][caller # "gui"
          => /\ (Len(calls') > Len(calls) \/ Len(port') > Len(port))
                   => answer' \in YesAnswers
             /\ (pc = "idle" /\ pc' # "idle") => answer' \in YesAnswers
             /\ (at = "menu" /\ last'.op \in ConfirmingOps
                    /\ answer' \notin YesAnswers)
                   => (at' = "menu" /\ calls' = calls /\ port' = port
                          /\ pc' = pc)]_vars

C24_Witness ==
    /\ caller = "main"
    /\ at = "twap"
    /\ answer = <<"Y">>
    /\ Len(port) = 2
    /\ Len(calls) = 1
    /\ calls[1].op = "cancel_all"

\* C25: in the GUI, while self.bot is None no step makes an order or cancel call
\* on the exchange client or starts a TWAP run; every such call and every TWAP
\* run happens after a construction of the bot that returned.
C25_GuiNoOrderBeforeLogin ==
    /\ [][(caller = "gui" /\ bot = "none")
             => (calls' = calls /\ port' = port /\ pc' = pc)]_vars
    /\ []((caller = "gui" /\ (Len(calls) > 0 \/ Len(port) > 0 \/ Called))
             => (bot = "ready" /\ conn.pc = "done"))

C25_Witness ==
    /\ caller = "gui"
    /\ bot = "none"
    /\ conn.pc = "raised"
    /\ last.op = "close_position"
    /\ last.path = "no_bot"
    /\ last.amount = 2
    /\ calls = <<>>

\* C26: in the GUI, a login attempt made after a failed one constructs the bot
\* with the key and the secret that are in the entry fields at that moment.
C26_LoginUsesTypedCredentials ==
    [][(caller = "gui" /\ conn.pc = "raised" /\ at = "idle" /\ at' = "construct")
          => (conn'.api_key = entry.key /\ conn'.api_secret = entry.secret)]_vars

\* C27: a construction of the bot of src/src/console.py makes at most two
\* futures_account calls; it makes the second one only after a first one that
\* raised code -1021, after exactly one resync, and the outcome of the second
\* one ends the construction; code -2015 ends it with ValueError and any other
\* API error with that error, after one call; and every construction ends.
FirstCode(c) == conn.first.kind = "BinanceAPIException" /\ conn.first.code = c
Constructing == conn.pc \in {"sync", "account", "resync", "retry"}
ConstructionEnded == conn.pc \in {"done", "raised"}

C27_ValidationRetriesOnce ==
    /\ [](caller # "main"
            => /\ conn.account_calls <= 2
               /\ conn.syncs <= 2
               /\ conn.pc = "resync"
                     => (FirstCode(TimestampErrorCode) /\ conn.account_calls = 1
                            /\ conn.syncs = 1)
               /\ conn.pc = "retry"
                     => (FirstCode(TimestampErrorCode) /\ conn.account_calls = 1
                            /\ conn.syncs = 2)
               /\ conn.account_calls = 2
                     => (FirstCode(TimestampErrorCode) /\ conn.syncs = 2
                            /\ ConstructionEnded)
               /\ (ConstructionEnded /\ FirstCode(TimestampErrorCode))
                     => conn.account_calls = 2
               /\ FirstCode(InvalidKeyCode)
                     => (conn.pc = "raised" /\ conn.error = "ValueError"
                            /\ conn.account_calls = 1 /\ conn.syncs = 1)
               /\ (conn.first.kind = "BinanceAPIException"
                      /\ ~FirstCode(TimestampErrorCode) /\ ~FirstCode(InvalidKeyCode))
                     => (conn.pc = "raised" /\ conn.error = "BinanceAPIException"
                            /\ conn.account_calls = 1 /\ conn.syncs = 1))
    /\ [][(caller # "main" /\ conn.pc = "retry" /\ conn' # conn)
             => /\ conn'.account_calls = 2
                /\ conn'.pc \in {"done", "raised"}
                /\ conn'.pc = "raised" => conn'.error # ""]_vars
    /\ Constructing ~> ConstructionEnded

C27_Witness ==
    /\ caller = "console"
    /\ at = "exited"
    /\ conn.pc = "raised"
    /\ FirstCode(TimestampErrorCode)
    /\ conn.account_calls = 2
    /\ conn.syncs = 2
    /\ conn.error = "BinanceAPIException"

\* C28 (as stated): whatever a menu action raises is reported and the program
\* is at the menu prompt again, and the menu loop is left only by choice '0'.
FailurePaths == {"ValueError", "BinanceAPIException", "Exception", "EOFError"}
InMenuLoop == at \in {"menu", "twap"}

C28_LoopEndsOnlyByChoiceZero ==
    [][caller # "gui"
          => /\ (at = "menu" /\ last'.op # "choice" /\ last'.path \in FailurePaths)
                   => at' = "menu"
             /\ (at = "twap" /\ at' # "twap") => at' = "menu"
             /\ (InMenuLoop /\ at' = "exited") => last' = Event("choice", "0")]_vars

\* C28 (amended): whatever the handling of a choice raises (an exception of
\* class Exception) is reported and the program is at the menu prompt again; the
\* menu loop is left by choice '0' or when reading the choice itself raises.
C28_MenuLoopSurvivesActionFailures ==
    [][caller # "gui"
          => /\ (at = "menu" /\ last'.op # "choice" /\ last'.path \in FailurePaths)
                   => at' = "menu"
             /\ (at = "twap" /\ at' # "twap") => at' = "menu"
             /\ (InMenuLoop /\ at' = "exited")
                   => /\ at = "menu"
                      /\ last' \in {Event("choice", "0"), Event("choice", "EOFError")}]_vars

C28_Witness ==
    /\ caller = "console"
    /\ at = "menu"
    /\ last = Event("market", "Exception")
    /\ Len(calls) = 1
    /\ calls[1].op = "market"

\* C29: a step of close_position adds at most one call to the calls made on
\* the exchange client; the call it adds is a market order of quantity
\* abs(amount), SELL for a positive and BUY for a negative amount; it adds none
\* when the amount is 0 or the confirmation was declined; it sends nothing else.
C29_ClosePositionOneOppositeOrder ==
    [][(caller = "gui" /\ last'.op = "close_position"
           /\ (last' # last \/ calls' # calls))
          => /\ Len(calls') <= Len(calls) + 1
             /\ (last'.amount = 0 \/ ~last'.confirm) => calls' = calls
             /\ Len(calls') = Len(calls) + 1
                   => /\ SubSeq(calls', 1, Len(calls)) = calls
                      /\ calls'[Len(calls')].op = "market"
                      /\ calls'[Len(calls')].side
                            = IF last'.amount > 0 THEN SELL ELSE BUY
                      /\ calls'[Len(calls')].quantity = Abs(last'.amount)
             /\ port' = port]_vars

C29_Witness ==
    /\ caller = "gui"
    /\ bot = "ready"
    /\ last = CloseEvent("ok", -1, TRUE)
    /\ calls = <<[op |-> "market", side |-> BUY, quantity |-> 1]>>

====
